---- MODULE Spec2Model ----
(***************************************************************************)
(* A model of hqu-school-mcp: the MCP tool server (server.py), the         *)
(* university service with its cached JWT (school.py) and the third-party  *)
(* student-data service (sends.py).                                        *)
(*                                                                         *)
(* Python values are modelled as strings; None and a missing JSON key are  *)
(* the sentinels None and Absent.  The semester literals '一' and '二' of   *)
(* the source are written "yi" and "er".                                   *)
(***************************************************************************)
EXTENDS Integers, Sequences, FiniteSets, TLC

VARIABLES
    now,                  \* datetime.now(): [year, month] (the only fields the code reads)
    environ,              \* os.environ after load_dotenv(): the names that are set and non-empty
    proc,                 \* how far the process has come: the imports of server.py, then serving
    read_at,              \* the instants of the two clock reads of __init__ (NoDate before)
    current_school_year,  \* SchoolInfoService.current_school_year
    current_semester,     \* SchoolInfoService.current_semester
    _jwt_token,           \* SchoolInfoService._jwt_token
    task                  \* the tool invocations in flight, one coroutine each

vars == <<now, environ, proc, read_at, current_school_year, current_semester,
          _jwt_token, task>>

\* ------------------------------------------------------------------ bounds

\* The clock runs over this many calendar years, starting with 2024.
MaxYears == 2
\* The months the process is followed for after its start.
MaxUptime == 1
\* The coroutines the event loop can hold in SpecRace.
NumTasks == 2

Years == 2024 .. (2024 + MaxYears - 1)
Months == 1 .. 12
Dates == [year : Years, month : Months]
Tasks == 1 .. NumTasks

\* ------------------------------------------------------------ Python values

None == "<None>"
Absent == "<absent>"
YI == "yi"
ER == "er"

\* ------------------------------------------------- the two period resolvers

\* A resolver whose year rolls over in August instead of September.
School_get_current_semester_rollover8(d) ==
    LET school_year == IF d.month >= 8
                       THEN ToString(d.year) \o "-" \o ToString(d.year + 1)
                       ELSE ToString(d.year - 1) \o "-" \o ToString(d.year)
        semester_num == IF 2 <= d.month /\ d.month <= 7 THEN ER ELSE YI
    IN  <<school_year, semester_num>>

\* A resolver whose second semester starts in March instead of February.
School_get_current_semester_from3(d) ==
    LET school_year == IF d.month >= 9
                       THEN ToString(d.year) \o "-" \o ToString(d.year + 1)
                       ELSE ToString(d.year - 1) \o "-" \o ToString(d.year)
        semester_num == IF 3 <= d.month /\ d.month <= 7 THEN ER ELSE YI
    IN  <<school_year, semester_num>>

\* A resolver whose second semester lasts through August.
School_get_current_semester_through8(d) ==
    LET school_year == IF d.month >= 9
                       THEN ToString(d.year) \o "-" \o ToString(d.year + 1)
                       ELSE ToString(d.year - 1) \o "-" \o ToString(d.year)
        semester_num == IF 2 <= d.month /\ d.month <= 8 THEN ER ELSE YI
    IN  <<school_year, semester_num>>

\* SchoolInfoService._get_current_semester, with d the value of datetime.now().
School_get_current_semester(d) ==
    LET school_year == IF d.month >= 9
                       THEN ToString(d.year) \o "-" \o ToString(d.year + 1)
                       ELSE ToString(d.year - 1) \o "-" \o ToString(d.year)
        semester_num == IF 2 <= d.month /\ d.month <= 7 THEN ER ELSE YI
    IN  <<school_year, semester_num>>

\* A third-party resolver whose academic year rolls over in August.
Sends_get_current_semester_rollover8(d) ==
    LET academic_year == IF d.month >= 8
                         THEN ToString(d.year) \o "-" \o ToString(d.year + 1)
                         ELSE ToString(d.year - 1) \o "-" \o ToString(d.year)
        semester_num == IF 2 <= d.month /\ d.month <= 7 THEN 2 ELSE 1
    IN  academic_year \o "-" \o ToString(semester_num)

\* StudentDataService._get_current_semester, with d the value of datetime.now().
Sends_get_current_semester(d) ==
    LET academic_year == IF d.month >= 9
                         THEN ToString(d.year) \o "-" \o ToString(d.year + 1)
                         ELSE ToString(d.year - 1) \o "-" \o ToString(d.year)
        semester_num == IF 2 <= d.month /\ d.month <= 7 THEN 2 ELSE 1
    IN  academic_year \o "-" \o ToString(semester_num)

\* ------------------------------------------------------------ configuration

\* The names server.py's imports and _get_jwt_token read from the environment.
EnvNames == {"SENDS_API_TOKEN", "STUDENT_ID", "OPENID"}

\* os.getenv(name): the value of a name that is set, None otherwise.
getenv(name) == IF name \in environ THEN "value-of-" \o name ELSE None

\* sends.py: API_TOKEN = os.getenv("SENDS_API_TOKEN")
API_TOKEN == getenv("SENDS_API_TOKEN")
\* school.py: STUDENT_ID = os.getenv("STUDENT_ID")
STUDENT_ID == getenv("STUDENT_ID")

BASE_URL == "https://apps.hqu.edu.cn"
DEFAULT_API_URL == "https://api.sends.cc"

\* ------------------------------------------------------------------- tools

\* The tools server.py registers with @mcp.tool().
Tools == {"health_check", "get_student_schedule", "get_student_grade",
          "get_teaching_week", "get_empty_classroom_status",
          "get_empty_classroom_count", "get_jwt_token", "get_college_list",
          "get_class_timetable", "get_teacher_list", "get_teacher_timetable",
          "get_course_list", "get_course_timetable", "get_rooms_timetable",
          "get_building_list", "get_classroom_list"}

\* A call of SchoolInfoService._get_jwt_token(refresh) by a program that imports
\* the package: the only caller that can pass refresh.
TokenMethod == "_get_jwt_token"

Callables == Tools \union {TokenMethod}

\* The tools and the method whose result is the token itself.
TokenCalls == {"get_jwt_token", TokenMethod}

\* The tools that end in a SchoolInfoService method with an endpoint of its own.
SchoolTools == {"get_student_grade", "get_empty_classroom_status",
                "get_empty_classroom_count", "get_college_list",
                "get_class_timetable", "get_teacher_list",
                "get_teacher_timetable", "get_course_list",
                "get_course_timetable", "get_rooms_timetable",
                "get_building_list", "get_classroom_list"}

\* The tools whose signature has school_year and semester.
PeriodTools == {"get_student_grade", "get_class_timetable",
                "get_teacher_timetable", "get_course_timetable",
                "get_rooms_timetable"}

\* Whether the tool's body is wrapped in try/except Exception (the except
\* returns {"error": str(e)}); get_student_schedule and health_check are not.
ToolCatches(tool) == tool \in Tools \ {"health_check", "get_student_schedule"}

\* Whether the SchoolInfoService method calls self._get_jwt_token() itself
\* before it calls self._get_headers(); the two classroom methods do not.
CallsTokenFirst(tool) ==
    tool \in SchoolTools \ {"get_empty_classroom_status", "get_empty_classroom_count"}

\* The text each SchoolInfoService method puts before str(e) in its except.
ErrPrefix(tool) ==
    CASE tool = "get_empty_classroom_count" -> "empty classroom count failed: "
      [] tool = "get_empty_classroom_status" -> "classroom status failed: "
      [] tool = "get_student_grade" -> "grade failed: "
      [] tool = "get_college_list" -> "college list failed: "
      [] tool = "get_class_timetable" -> "class timetable failed: "
      [] tool = "get_teacher_list" -> "teacher list failed: "
      [] tool = "get_teacher_timetable" -> "teacher timetable failed: "
      [] tool = "get_course_list" -> "course list failed: "
      [] tool = "get_course_timetable" -> "course timetable failed: "
      [] tool = "get_building_list" -> "building list failed: "
      [] tool = "get_classroom_list" -> "classroom list failed: "
      [] tool = "get_rooms_timetable" -> "rooms timetable failed: "

\* ------------------------------------------------------- a caller's arguments

\* What a caller passes for an academic period; None is an omitted argument.
CallerYears == {None, "2019-2020"}
CallerSemesters == {None, YI, ER}
CallerScheduleSemesters == {None, "2019-2020-2"}

\* The other arguments are fixed, pairwise different values.
CampusArg == "campus-XM"
BuildArg == "build-C4"
RoomArg == "room-C4-101"

NoArgs == [school_year |-> None, semester |-> None, refresh |-> FALSE,
           is_overseas |-> FALSE, day |-> None]

\* The argument records a caller can pass to each tool (a field the tool does
\* not have keeps its NoArgs value).
ArgsOf(tool) ==
    CASE tool \in PeriodTools \ {"get_class_timetable"} ->
             {[NoArgs EXCEPT !.school_year = y, !.semester = s] :
                 y \in CallerYears, s \in CallerSemesters}
      [] tool = "get_class_timetable" ->
             {[NoArgs EXCEPT !.school_year = y, !.semester = s, !.is_overseas = o] :
                 y \in CallerYears, s \in CallerSemesters, o \in BOOLEAN}
      [] tool = "get_student_schedule" ->
             {[NoArgs EXCEPT !.semester = s] : s \in CallerScheduleSemesters}
      [] tool = "get_empty_classroom_status" ->
             {[NoArgs EXCEPT !.day = d] : d \in {None, "", "2025-03-01"}}
      [] tool = TokenMethod ->
             {[NoArgs EXCEPT !.refresh = r] : r \in BOOLEAN}
      [] OTHER -> {NoArgs}

\* The parameters of the service method as the tool's call binds them.  Every
\* tool passes its arguments in the method's order except get_rooms_timetable,
\* which calls get_rooms_timetable(school_year, semester, campus, build_name,
\* room_id) on a method declared (campus, build_name, room_id, school_year,
\* semester).
Bind(tool, a) ==
    IF tool = "get_rooms_timetable"
    THEN [campus |-> a.school_year, build_name |-> a.semester,
          room_id |-> CampusArg, school_year |-> BuildArg, semester |-> RoomArg]
    ELSE [campus |-> CampusArg, build_name |-> BuildArg, room_id |-> RoomArg,
          school_year |-> a.school_year, semester |-> a.semester]

\* ------------------------------------------------------ requests and replies

\* A Python dict is the set of its <<key, value>> pairs.
Get(dict, key) ==
    IF \E e \in dict : e[1] = key
    THEN (CHOOSE e \in dict : e[1] = key)[2]
    ELSE Absent

\* What an invocation last sent: the backend, the URL, params= and headers=.
NoReq == [backend |-> None, url |-> None, params |-> {}, headers |-> {}]

\* now.strftime("%Y-%m-%d") of get_empty_classroom_status; the day of the month
\* is not part of the modelled clock.
Today ==
    ToString(now.year) \o "-" \o (IF now.month < 10 THEN "0" ELSE "")
        \o ToString(now.month) \o "-dd"

\* The path each SchoolInfoService method requests under BASE_URL.
Path(tool) ==
    CASE tool = "get_empty_classroom_count" -> "/academic/schoolroom/count"
      [] tool = "get_empty_classroom_status" -> "/academic/schoolroom/analysis"
      [] tool = "get_student_grade" -> "/academic/score/account"
      [] tool = "get_college_list" -> "/academic/schedule/college"
      [] tool = "get_class_timetable" -> "/academic/schedule/classTimetable"
      [] tool = "get_teacher_list" -> "/academic/schedule/teachers"
      [] tool = "get_teacher_timetable" -> "/academic/schedule/teacherTimetable"
      [] tool = "get_course_list" -> "/academic/schedule/courseNames"
      [] tool = "get_course_timetable" -> "/academic/schedule/selectCourse"
      [] tool = "get_building_list" -> "/academic/schedule/buildByCampus"
      [] tool = "get_classroom_list" -> "/academic/schedule/roomsByCampus"
      [] tool = "get_rooms_timetable" -> "/academic/schedule/roomsTimetable"

\* The params dict each SchoolInfoService method builds from its parameters:
\* "if school_year is None: school_year = self.current_school_year", the same
\* for semester, then the method's own keys.
Params(tool, a) ==
    LET p == Bind(tool, a)
        school_year == IF p.school_year = None THEN current_school_year
                       ELSE p.school_year
        semester == IF p.semester = None THEN current_semester ELSE p.semester
    IN  CASE tool = "get_empty_classroom_count" ->
                 {<<"campus", p.campus>>, <<"name", "">>}
          [] tool = "get_empty_classroom_status" ->
                 {<<"campus", p.campus>>, <<"buildId", "0002011">>,
                  <<"day", IF a.day \notin {None, ""} THEN a.day ELSE Today>>}
          [] tool = "get_student_grade" ->
                 {<<"account", STUDENT_ID>>, <<"schoolYear", school_year>>,
                  <<"semester", semester>>}
          [] tool = "get_class_timetable" ->
                 {<<"KKXN", school_year>>, <<"KKXQ", semester>>,
                  <<"ZYBJDM", IF a.is_overseas THEN "class-1" \o "(overseas)"
                              ELSE "class-1">>,
                  <<"timetableType", "class timetable query">>}
          [] tool = "get_teacher_list" ->
                 {<<"XYDM", "college-1">>, <<"Type", "weimeng-sends">>}
          [] tool = "get_teacher_timetable" ->
                 {<<"KKXN", school_year>>, <<"KKXQ", semester>>,
                  <<"ZYBJDM", "teacher-1">>,
                  <<"timetableType", "teacher timetable query">>}
          [] tool = "get_course_timetable" ->
                 {<<"year", school_year>>, <<"term", semester>>,
                  <<"courseName", "course-1">>}
          [] tool = "get_building_list" -> {<<"campus", p.campus>>}
          [] tool = "get_classroom_list" ->
                 {<<"campus", p.campus>>, <<"build", p.build_name>>}
          [] tool = "get_rooms_timetable" ->
                 {<<"KKXN", school_year>>, <<"KKXQ", semester>>,
                  <<"campus", p.campus>>, <<"build", p.build_name>>,
                  <<"room", p.room_id>>}
          [] OTHER -> {}

\* A _get_headers that sends the token the way the third-party backend wants it.
School_get_headers_bearer(token) ==
    {<<"Content-Type", "application/json">>,
     <<"Accept", "application/json;charset=utf-8">>,
     <<"Authorization", "Bearer " \o token>>}

\* SchoolInfoService._get_headers with the token _get_jwt_token returned.
School_get_headers(token) ==
    {<<"Content-Type", "application/json">>,
     <<"Accept", "application/json;charset=utf-8">>,
     <<"Authorization", token>>}

\* StudentDataService._get_headers.
Sends_get_headers ==
    {<<"Authorization", "Bearer " \o API_TOKEN>>,
     <<"Content-Type", "application/json">>}

\* The request _get_jwt_token sends to the identity backend.
IdentityRequest ==
    [backend |-> "identity", url |-> BASE_URL \o "/wechatauth/wechat/generate/token",
     params |-> {<<"openId", getenv("OPENID")>>}, headers |-> {}]

\* The request a SchoolInfoService method sends once it has its headers.
SchoolRequest(tool, a, token) ==
    [backend |-> "school", url |-> BASE_URL \o Path(tool),
     params |-> Params(tool, a), headers |-> School_get_headers(token)]

\* The request of StudentDataService.get_schedule: "if semester is None:
\* semester = self._get_current_semester()".
ScheduleRequest(a) ==
    [backend |-> "sends", url |-> DEFAULT_API_URL \o "/service/school/schedule",
     params |-> {<<"semester", IF a.semester = None
                               THEN Sends_get_current_semester(now)
                               ELSE a.semester>>},
     headers |-> Sends_get_headers]

\* The request of the get_teaching_week tool, on a client of its own.
CalendarRequest ==
    [backend |-> "calendar", url |-> BASE_URL \o "/academic/schoolCalendar",
     params |-> {}, headers |-> {}]

\* What the identity backend can answer.  transport is how client.get,
\* raise_for_status and response.json() end; the other fields are the decoded
\* body: code and msg (Absent when the key is missing), data and restToken
\* ("absent", "empty" for None or {}, or "dict"), and restToken's token.
IdentityReply(transport, code, msg, data, restToken, token) ==
    [transport |-> transport, code |-> code, msg |-> msg, data |-> data,
     restToken |-> restToken, token |-> token]

IdentityReplies ==
    { IdentityReply("connect_error", Absent, Absent, "absent", "absent", Absent),
      IdentityReply("http_error", Absent, Absent, "absent", "absent", Absent),
      IdentityReply("bad_json", Absent, Absent, "absent", "absent", Absent),
      IdentityReply("ok", "0000", "success", "dict", "dict", "jwt-1"),
      IdentityReply("ok", "0000", "success", "dict", "dict", "jwt-2"),
      IdentityReply("ok", "9001", "invalid openId", "empty", "absent", Absent),
      IdentityReply("ok", "9001", Absent, "absent", "absent", Absent),
      IdentityReply("ok", Absent, Absent, "dict", "dict", "jwt-1"),
      IdentityReply("ok", "0000", "success", "empty", "absent", Absent),
      IdentityReply("ok", "0000", "success", "dict", "empty", Absent),
      IdentityReply("ok", "0000", "success", "dict", "dict", Absent),
      IdentityReply("ok", "0000", "success", "dict", "dict", "") }

NoReply == IdentityReply(None, Absent, Absent, "absent", "absent", Absent)

\* What an academic endpoint or the third-party backend can answer.
ApiReplies == {"connect_error", "http_error", "bad_json", "ok"}

\* str(e) of the exception each transport failure raises.
ExcText(transport) ==
    CASE transport = "connect_error" -> "ConnectError"
      [] transport = "http_error" -> "HTTPStatusError"
      [] transport = "bad_json" -> "JSONDecodeError"

\* What an invocation hands back: how ("return" or "raise"), and of a returned
\* value its kind: "upstream" (the upstream JSON unchanged), "envelope" (the
\* dict {code, msg, data}), "error" (the dict {error}), "token", "text", "week".
NoResult == [how |-> None, kind |-> None, code |-> Absent, msg |-> Absent,
             data |-> Absent, error |-> Absent, value |-> Absent,
             success |-> Absent, week_number |-> Absent, date |-> Absent]

Returned(kind, value) == [NoResult EXCEPT !.how = "return", !.kind = kind, !.value = value]

Raised(text) == [NoResult EXCEPT !.how = "raise", !.error = text]

\* The dict every SchoolInfoService method returns from "except Exception as e".
Envelope(tool, text) ==
    [NoResult EXCEPT !.how = "return", !.kind = "envelope", !.code = "9999",
                     !.msg = ErrPrefix(tool) \o text, !.data = None]

\* The dict a tool returns from "except Exception as e".
ErrorDict(text) == [NoResult EXCEPT !.how = "return", !.kind = "error", !.error = text]

\* ----------------------------------------------------------- _get_jwt_token

\* A _get_jwt_token that goes to the backend on every call.
NeedsRequest_every_call(cache, refresh) == TRUE

\* "if self._jwt_token is None or refresh": whether the call goes to the backend.
NeedsRequest(cache, refresh) == cache = None \/ refresh

\* "if not openid": OPENID is read when the request is about to be made.
OpenidMissing == getenv("OPENID") = None

\* A check that looks at the payload only and not at the code.
Rejects_payload_only(r) ==
    \/ r.data \in {"absent", "empty"}
    \/ r.restToken \in {"absent", "empty"}

\* 'if data.get("code") != "0000" or not data.get("data") or not
\* data.get("data").get("restToken")': the replies the check rejects.
Rejects(r) ==
    \/ r.code # "0000"
    \/ r.data \in {"absent", "empty"}
    \/ r.restToken \in {"absent", "empty"}

\* What _get_jwt_token does with the backend's reply: raise (client.get,
\* raise_for_status or response.json() raised, or the check rejected the body:
\* ValueError with data.get('msg', 'unknown error')), or store
\* data["data"]["restToken"].get("token"), None when the key is missing.
JwtOutcome(r) ==
    IF r.transport # "ok"
    THEN [raise |-> TRUE, text |-> ExcText(r.transport), token |-> None]
    ELSE IF Rejects(r)
    THEN [raise |-> TRUE,
          text |-> "get JWT token failed: "
                       \o (IF r.msg = Absent THEN "unknown error" ELSE r.msg),
          token |-> None]
    ELSE [raise |-> FALSE, text |-> "",
          token |-> IF r.token = Absent THEN None ELSE r.token]

\* ----------------------------------------------------------- one coroutine

\* pc: "idle", "auth_wait" (awaiting the identity backend), "api_wait" (awaiting
\* an endpoint) or "done".  stage: which _get_jwt_token call of the method is
\* awaited, the method's own ("direct") or the one of _get_headers ("headers").
\* nauth: the identity requests this invocation has sent.  reply: the identity
\* reply it consumed last.  calendar: the calendar reply get_teaching_week
\* consumed.
NoCalendar == [transport |-> None, code |-> Absent, data |-> "absent",
               currWeek |-> "absent", week |-> <<>>]

IdleTask == [pc |-> "idle", tool |-> None, args |-> NoArgs, stage |-> None,
             nauth |-> 0, req |-> NoReq, reply |-> NoReply,
             calendar |-> NoCalendar, result |-> NoResult]

Finish(tk, result) == [tk EXCEPT !.pc = "done", !.result = result]

\* An exception with text str(e) raised inside the invocation: a
\* SchoolInfoService method returns its envelope, a tool with try/except
\* returns {"error": ...}, anything else lets it propagate.
Raise(tk, text) ==
    IF tk.tool \in SchoolTools THEN Finish(tk, Envelope(tk.tool, text))
    ELSE IF ToolCatches(tk.tool) THEN Finish(tk, ErrorDict(text))
    ELSE Finish(tk, Raised(text))

\* "response = await self.client.get(url, params=params)" of _get_jwt_token.
AwaitIdentity(tk, stage) ==
    [tk EXCEPT !.pc = "auth_wait", !.stage = stage, !.nauth = @ + 1,
               !.req = IdentityRequest]

\* "response = await self.client.get(url, headers=headers, params=params)" of a
\* SchoolInfoService method.  httpx refuses a header whose value is None.
SendApi(tk, token) ==
    IF token = None THEN Raise(tk, "TypeError: header value must be str")
    ELSE [tk EXCEPT !.pc = "api_wait", !.req = SchoolRequest(tk.tool, tk.args, token)]

\* self._get_headers(): its _get_jwt_token() call with the cache as it is now.
HeadersTokenCall(tk, cache) ==
    IF NeedsRequest(cache, FALSE)
    THEN IF OpenidMissing THEN Raise(tk, "OPENID not found in the environment")
         ELSE AwaitIdentity(tk, "headers")
    ELSE SendApi(tk, cache)

\* What follows a _get_jwt_token call that returned, with the cache as it is
\* now: the token tool returns it; a method goes on to _get_headers after its
\* own call, and to its request after the call of _get_headers.
AfterToken(tk, cache) ==
    IF tk.tool \in TokenCalls THEN Finish(tk, Returned("token", cache))
    ELSE IF tk.stage = "direct" THEN HeadersTokenCall(tk, cache)
    ELSE SendApi(tk, cache)

\* The first _get_jwt_token call of an invocation, up to its await.
FirstTokenCall(tk, refresh, cache) ==
    IF NeedsRequest(cache, refresh)
    THEN IF OpenidMissing THEN Raise(tk, "OPENID not found in the environment")
         ELSE AwaitIdentity(tk, tk.stage)
    ELSE AfterToken(tk, cache)

\* An invocation from its call to its first await (or to its end).
Start(tool, a) ==
    LET tk == [IdleTask EXCEPT !.tool = tool, !.args = a]
    IN  CASE tool = "health_check" -> Finish(tk, Returned("text", "service is running"))
          [] tool = "get_student_schedule" ->
                 [tk EXCEPT !.pc = "api_wait", !.req = ScheduleRequest(a)]
          [] tool = "get_teaching_week" ->
                 [tk EXCEPT !.pc = "api_wait", !.req = CalendarRequest]
          [] tool \in TokenCalls ->
                 FirstTokenCall([tk EXCEPT !.stage = "direct"], a.refresh, _jwt_token)
          [] tool \in SchoolTools ->
                 FirstTokenCall([tk EXCEPT !.stage = IF CallsTokenFirst(tool)
                                                     THEN "direct" ELSE "headers"],
                                FALSE, _jwt_token)

\* -------------------------------------------------------- get_teaching_week

\* A currWeek text is a sequence of characters: "D" stands for the character
\* before the number ('第'), "Z" for the one after it ('周'), "x" for any other.
Digits == {"0", "1", "2", "3", "4", "5", "6", "7", "8", "9"}

DigitValue(c) == CHOOSE n \in 0 .. 9 : ToString(n) = c

\* int() of a sequence of digits.
RECURSIVE IntOf(_)
IntOf(ds) ==
    IF ds = <<>> THEN 0
    ELSE 10 * IntOf(SubSeq(ds, 1, Len(ds) - 1)) + DigitValue(ds[Len(ds)])

\* Whether 'D(\d+)Z' matches at position i with the digits ending at j.
MatchesAt(s, i, j) ==
    /\ s[i] = "D"
    /\ i < j /\ j < Len(s)
    /\ \A k \in (i + 1) .. j : s[k] \in Digits
    /\ s[j + 1] = "Z"

\* re.search(r'D(\d+)Z', s): group(1) of the leftmost match, <<>> without one.
WeekSearch(s) ==
    LET starts == {i \in 1 .. Len(s) : \E j \in 1 .. Len(s) : MatchesAt(s, i, j)}
    IN  IF starts = {} THEN <<>>
        ELSE LET i == CHOOSE x \in starts : \A y \in starts : x <= y
                 j == CHOOSE x \in 1 .. Len(s) : MatchesAt(s, i, x)
             IN  SubSeq(s, i + 1, j)

\* What the calendar endpoint can answer: transport as above (the tool does not
\* call raise_for_status), code, data ("absent", "empty" or "dict") and
\* data's currWeek: "absent", "null" or "text" with the characters in week.
CalendarReply(transport, code, data, currWeek, week) ==
    [transport |-> transport, code |-> code, data |-> data,
     currWeek |-> currWeek, week |-> week]

CalendarReplies ==
    { CalendarReply("connect_error", Absent, "absent", "absent", <<>>),
      CalendarReply("bad_json", Absent, "absent", "absent", <<>>),
      CalendarReply("ok", "0000", "dict", "text", <<"D", "5", "Z">>),
      CalendarReply("ok", "0000", "dict", "text", <<"x", "D", "1", "2", "Z", "x">>),
      CalendarReply("ok", "0000", "dict", "text", <<"D", "0", "7", "Z">>),
      CalendarReply("ok", "0000", "dict", "text", <<"D", "3", "Z", "D", "5", "Z">>),
      CalendarReply("ok", "0000", "dict", "text", <<"D", "Z">>),
      CalendarReply("ok", "0000", "dict", "text", <<"x", "x">>),
      CalendarReply("ok", "0000", "dict", "absent", <<>>),
      CalendarReply("ok", "0000", "dict", "null", <<>>),
      CalendarReply("ok", "0000", "empty", "absent", <<>>),
      CalendarReply("ok", "9001", "dict", "text", <<"D", "5", "Z">>),
      CalendarReply("ok", Absent, "dict", "text", <<"D", "5", "Z">>) }

\* A get_teaching_week that takes the week from any reply that has one,
\* whatever its code.
TeachingWeekResult_any_code(r) ==
    IF r.transport # "ok" THEN ErrorDict(ExcText(r.transport))
    ELSE IF r.data = "dict" /\ r.currWeek = "null"
    THEN ErrorDict("TypeError: expected string or bytes-like object")
    ELSE LET curr_week == IF r.currWeek = "text" THEN r.week ELSE <<>>
             group == IF r.data = "dict" THEN WeekSearch(curr_week) ELSE <<>>
             week_number == IF group = <<>> THEN None ELSE ToString(IntOf(group))
         IN  [NoResult EXCEPT !.how = "return", !.kind = "week",
                              !.success = IF week_number # None THEN "True" ELSE "False",
                              !.week_number = week_number, !.date = Today]

\* The body of get_teaching_week after its request: week_number is None unless
\* the code is "0000", data is truthy and currWeek matches; re.search raises on
\* a currWeek that is null.
TeachingWeekResult(r) ==
    IF r.transport # "ok" THEN ErrorDict(ExcText(r.transport))
    ELSE IF r.code = "0000" /\ r.data = "dict" /\ r.currWeek = "null"
    THEN ErrorDict("TypeError: expected string or bytes-like object")
    ELSE LET curr_week == IF r.currWeek = "text" THEN r.week ELSE <<>>
             group == IF r.code = "0000" /\ r.data = "dict"
                      THEN WeekSearch(curr_week) ELSE <<>>
             week_number == IF group = <<>> THEN None ELSE ToString(IntOf(group))
         IN  [NoResult EXCEPT !.how = "return", !.kind = "week",
                              !.success = IF week_number # None THEN "True" ELSE "False",
                              !.week_number = week_number, !.date = Today]

\* ------------------------------------------------------------------ startup

NoDate == [year |-> 0, month |-> 0]

\* The month after d.
NextMonth(d) ==
    IF d.month = 12 THEN [year |-> d.year + 1, month |-> 1]
    ELSE [year |-> d.year, month |-> d.month + 1]

\* The months from date d to date e.
MonthsFrom(d, e) == (e.year - d.year) * 12 + (e.month - d.month)

Init ==
    /\ now \in Dates
    /\ environ \in SUBSET EnvNames
    /\ proc = "import_sends"
    /\ read_at = [first |-> NoDate, second |-> NoDate]
    /\ current_school_year = None
    /\ current_semester = None
    /\ _jwt_token = None
    /\ task = [t \in Tasks |-> IdleTask]

\* server.py "from hqu_school_mcp.sends import student_data_service": sends.py
\* raises ValueError at import when SENDS_API_TOKEN is not set.
ImportSends ==
    /\ proc = "import_sends"
    /\ proc' = IF API_TOKEN = None THEN "crashed" ELSE "import_school"
    /\ UNCHANGED <<now, environ, read_at, current_school_year, current_semester,
                   _jwt_token, task>>

\* server.py "from hqu_school_mcp.school import school_info_service": school.py
\* raises ValueError at import when STUDENT_ID is not set, and otherwise goes on
\* to "school_info_service = SchoolInfoService()".
ImportSchool ==
    /\ proc = "import_school"
    /\ proc' = IF STUDENT_ID = None THEN "crashed" ELSE "init_year"
    /\ UNCHANGED <<now, environ, read_at, current_school_year, current_semester,
                   _jwt_token, task>>

\* __init__: self.current_school_year = self._get_current_semester()[0]
InitSchoolYear ==
    /\ proc = "init_year"
    /\ current_school_year' = School_get_current_semester(now)[1]
    /\ read_at' = [read_at EXCEPT !.first = now]
    /\ proc' = "init_semester"
    /\ UNCHANGED <<now, environ, current_semester, _jwt_token, task>>

\* __init__: self.current_semester = self._get_current_semester()[1], then
\* self._jwt_token = None; the process then serves (mcp.run()).
InitSemester ==
    /\ proc = "init_semester"
    /\ current_semester' = School_get_current_semester(now)[2]
    /\ _jwt_token' = None
    /\ read_at' = [read_at EXCEPT !.second = now]
    /\ proc' = "serving"
    /\ UNCHANGED <<now, environ, current_school_year, task>>

\* The wall clock passes into the next month.  Between the two clock reads of
\* __init__ at most one month boundary passes.  Every invocation reads the clock
\* before its first await and never after it, so a month that passes while an
\* invocation is in flight is taken to pass after it.
Tick ==
    /\ \/ /\ proc = "serving"
          /\ \A t \in Tasks : task[t].pc = "idle"
          /\ MonthsFrom(read_at.second, now) < MaxUptime
       \/ proc = "init_semester" /\ now = read_at.first
    /\ NextMonth(now) \in Dates
    /\ now' = NextMonth(now)
    /\ UNCHANGED <<environ, proc, read_at, current_school_year, current_semester,
                   _jwt_token, task>>

\* -------------------------------------------------------------- invocations

\* A caller invokes a tool (or the token method): the coroutine runs to its
\* first await.
Invoke(t, tool, a) ==
    /\ proc = "serving"
    /\ task[t].pc = "idle"
    /\ task' = [task EXCEPT ![t] = Start(tool, a)]
    /\ UNCHANGED <<now, environ, proc, read_at, current_school_year,
                   current_semester, _jwt_token>>

\* The identity backend's reply r resumes _get_jwt_token: it raises, or stores
\* the token and returns it, and the invocation runs to its next await.
AuthResume(t, r) ==
    /\ task[t].pc = "auth_wait"
    /\ LET tk == [task[t] EXCEPT !.reply = r]
           out == JwtOutcome(r)
       IN  IF out.raise
           THEN /\ task' = [task EXCEPT ![t] = Raise(tk, out.text)]
                /\ UNCHANGED _jwt_token
           ELSE /\ _jwt_token' = out.token
                /\ task' = [task EXCEPT ![t] = AfterToken(tk, out.token)]
    /\ UNCHANGED <<now, environ, proc, read_at, current_school_year, current_semester>>

\* An endpoint's reply resumes a SchoolInfoService method or get_schedule:
\* raise_for_status, then "return response.json()".
ApiResume(t, r) ==
    /\ task[t].pc = "api_wait"
    /\ task[t].tool # "get_teaching_week"
    /\ task' = [task EXCEPT ![t] =
                   IF r = "ok" THEN Finish(task[t], Returned("upstream", "upstream JSON"))
                   ELSE Raise(task[t], ExcText(r))]
    /\ UNCHANGED <<now, environ, proc, read_at, current_school_year,
                   current_semester, _jwt_token>>

\* The calendar endpoint's reply resumes get_teaching_week.
TeachingWeekResume(t, r) ==
    /\ task[t].pc = "api_wait"
    /\ task[t].tool = "get_teaching_week"
    /\ task' = [task EXCEPT ![t] = Finish([task[t] EXCEPT !.calendar = r],
                                          TeachingWeekResult(r))]
    /\ UNCHANGED <<now, environ, proc, read_at, current_school_year,
                   current_semester, _jwt_token>>

\* The caller has its answer; the coroutine is gone.
Return(t) ==
    /\ task[t].pc = "done"
    /\ task' = [task EXCEPT ![t] = IdleTask]
    /\ UNCHANGED <<now, environ, proc, read_at, current_school_year,
                   current_semester, _jwt_token>>

Startup == ImportSends \/ ImportSchool \/ InitSchoolYear \/ InitSemester

\* One invocation at a time, every tool, a running clock.
Next ==
    \/ Startup
    \/ Tick
    \/ \E tool \in Callables : \E a \in ArgsOf(tool) : Invoke(1, tool, a)
    \/ \E r \in IdentityReplies : AuthResume(1, r)
    \/ \E r \in ApiReplies : ApiResume(1, r)
    \/ \E r \in CalendarReplies : TeachingWeekResume(1, r)
    \/ Return(1)

Spec == Init /\ [][Next]_vars

\* ------------------------------------------------------ concurrent first use

\* The token method, the token tool and one SchoolInfoService method that
\* calls _get_jwt_token twice, invoked while other invocations are in flight.
RaceCallables == TokenCalls \union {"get_college_list"}

\* The process as InitSemester leaves it, started in September 2024 with every
\* name set.
InitRace ==
    /\ now = [year |-> 2024, month |-> 9]
    /\ environ = EnvNames
    /\ proc = "serving"
    /\ read_at = [first |-> now, second |-> now]
    /\ current_school_year = School_get_current_semester(now)[1]
    /\ current_semester = School_get_current_semester(now)[2]
    /\ _jwt_token = None
    /\ task = [t \in Tasks |-> IdleTask]

\* The event loop runs whichever coroutine is ready; a coroutine gives way to
\* the others only at its awaits.  The clock passes as in Spec.
NextRace ==
    \/ Tick
    \/ \E t \in Tasks :
        \/ \E tool \in RaceCallables : \E a \in ArgsOf(tool) : Invoke(t, tool, a)
        \/ \E r \in IdentityReplies : AuthResume(t, r)
        \/ \E r \in ApiReplies : ApiResume(t, r)
        \/ Return(t)

SpecRace == InitRace /\ [][NextRace]_vars

\* ==================================================================== claims

\* "{y}-{y+1}" as the spec writes a school year.
YearPair(y) == ToString(y) \o "-" \o ToString(y + 1)

\* C1: for every date the resolver is called on, the school year it returns is
\* "{Y}-{Y+1}" when the month is 9 or later and "{Y-1}-{Y}" when the month is 8
\* or earlier (the resolver's first field is what __init__ stores from its
\* first clock read).
C1_SchoolYearOfDate ==
    proc \in {"init_semester", "serving"} =>
        LET d == read_at.first
        IN  /\ d.month >= 9 => current_school_year = YearPair(d.year)
            /\ d.month <= 8 => current_school_year = YearPair(d.year - 1)

\* C1's case: the resolver has run in August 2025 and returned the school year
\* that began the September before.
C1_Witness ==
    /\ proc = "serving"
    /\ read_at.first = [year |-> 2025, month |-> 8]
    /\ current_school_year = "2024-2025"

\* The concrete cases the spec lists for the resolver.
ConcreteCases ==
    { <<[year |-> 2024, month |-> 9], "2024-2025", YI>>,
      <<[year |-> 2025, month |-> 1], "2024-2025", YI>>,
      <<[year |-> 2025, month |-> 3], "2024-2025", ER>>,
      <<[year |-> 2025, month |-> 8], "2024-2025", YI>> }

\* C2: for every date the resolver is called on, the semester it returns is the
\* second exactly when the month is in 2..7 and the first for months 1, 8, 9,
\* 10, 11 and 12 (the second field is what __init__ stores from its second
\* clock read); and a resolver call on 2024-09, 2025-01 or 2025-08 gives
\* ("2024-2025", first), one on 2025-03 gives ("2024-2025", second).
C2_SemesterOfDate ==
    proc = "serving" =>
        /\ current_semester = ER <=> read_at.second.month \in 2 .. 7
        /\ current_semester = YI <=> read_at.second.month \in {1, 8, 9, 10, 11, 12}
        /\ \A c \in ConcreteCases :
               read_at.first = c[1] /\ read_at.second = c[1] =>
                   <<current_school_year, current_semester>> = <<c[2], c[3]>>

\* C2's case: the resolver has run on 2025-03 and returned the second semester.
C2_Witness ==
    /\ proc = "serving"
    /\ read_at.first = [year |-> 2025, month |-> 3]
    /\ read_at.second = [year |-> 2025, month |-> 3]
    /\ <<current_school_year, current_semester>> = <<"2024-2025", ER>>

\* C3: get_token called twice in sequence without force_refresh performs one
\* authentication request: a downstream operation, which calls it directly and
\* then through header assembly, sends at most one request to the identity
\* backend.
C3_AuthenticatesAtMostOnce ==
    \A t \in Tasks : task[t].tool \in SchoolTools => task[t].nauth <= 1

\* A reply that issues a token: decoded, code "0000", data.restToken.token
\* present and not empty.
IssuesToken(r) ==
    /\ r.transport = "ok" /\ r.code = "0000"
    /\ r.data = "dict" /\ r.restToken = "dict"
    /\ r.token \notin {Absent, ""}

\* C4: get_token(force_refresh=true) sends a new authentication request
\* whatever the cache holds; when the reply issues a token the cache becomes
\* that token and the call returns it; on any other reply the cache is left as
\* it was and the call raises.
C4_ForceRefresh ==
    [][\A t \in Tasks :
          /\ (/\ task[t].pc = "idle"
              /\ task'[t].tool = TokenMethod
              /\ task'[t].args.refresh
              /\ ~OpenidMissing)
                 => task'[t].pc = "auth_wait"
          /\ (/\ task[t].pc = "auth_wait"
              /\ task[t].tool = TokenMethod
              /\ task[t].args.refresh
              /\ task'[t].pc = "done")
                 => IF IssuesToken(task'[t].reply)
                    THEN /\ _jwt_token' = task'[t].reply.token
                         /\ task'[t].result = Returned("token", task'[t].reply.token)
                    ELSE /\ _jwt_token' = _jwt_token
                         /\ task'[t].result.how = "raise"
      ]_vars

\* C5: a reply in which data.restToken.token is missing or empty makes
\* get_token fail: get_token never returns None or an empty token, and the
\* cache never holds an empty token.
C5_NeverNoneOrEmptyToken ==
    /\ _jwt_token # ""
    /\ \A t \in Tasks :
           (/\ task[t].tool \in TokenCalls
            /\ task[t].pc = "done"
            /\ task[t].result.how = "return")
               => task[t].result.value \notin {None, ""}

\* The keys under which each tool's request carries the school year and the
\* semester.
YearKey(tool) ==
    CASE tool = "get_student_grade" -> "schoolYear"
      [] tool = "get_course_timetable" -> "year"
      [] OTHER -> "KKXN"

SemesterKey(tool) ==
    CASE tool = "get_student_grade" -> "semester"
      [] tool = "get_course_timetable" -> "term"
      [] OTHER -> "KKXQ"

\* An invocation whose request to an endpoint is in flight, with an issued token
\* for its Authorization when the endpoint is the university's.
RequestInFlight(t) ==
    /\ task[t].pc = "api_wait"
    /\ task[t].req.backend = "school" =>
           Get(task[t].req.headers, "Authorization") \in {"jwt-1", "jwt-2"}

\* C6: a request that omits school_year or semester is sent with the period
\* resolved from the date of the request, for the university operations and
\* for the third-party schedule (no month passes while a request is in flight,
\* so now is the date of the request).
C6_DefaultsResolvedPerRequest ==
    \A t \in Tasks :
        RequestInFlight(t) =>
            LET tool == task[t].tool
                a == task[t].args
                params == task[t].req.params
            IN  /\ tool \in PeriodTools \ {"get_rooms_timetable"} =>
                       /\ a.school_year = None =>
                              Get(params, YearKey(tool)) = School_get_current_semester(now)[1]
                       /\ a.semester = None =>
                              Get(params, SemesterKey(tool)) = School_get_current_semester(now)[2]
                /\ tool = "get_student_schedule" /\ a.semester = None =>
                       Get(params, "semester") = Sends_get_current_semester(now)

\* C7: for every tool that takes an academic period, a school_year or semester
\* the caller supplies is sent unchanged under the request's year or semester
\* key, and the stored default is sent only for a field the caller omitted,
\* each field on its own.
C7_CallerPeriodSentUnchanged ==
    \A t \in Tasks :
        RequestInFlight(t) =>
            LET tool == task[t].tool
                a == task[t].args
                params == task[t].req.params
            IN  /\ tool \in PeriodTools =>
                       /\ Get(params, YearKey(tool)) =
                              IF a.school_year # None THEN a.school_year
                              ELSE current_school_year
                       /\ Get(params, SemesterKey(tool)) =
                              IF a.semester # None THEN a.semester
                              ELSE current_semester
                /\ tool = "get_student_schedule" /\ a.semester # None =>
                       Get(params, "semester") = a.semester

\* C8: a tool invocation whose downstream call failed returns the object
\* {code: "9999", msg, data: null}: no tool returns an error object of another
\* shape and no tool lets the failure propagate as an exception (in a process
\* whose configuration is complete, so that what fails is a downstream call).
C8_UniformErrorObject ==
    \A t \in Tasks :
        task[t].pc = "done" /\ task[t].tool \in Tools /\ EnvNames \subseteq environ =>
            /\ task[t].result.how = "return"
            /\ task[t].result.kind # "error"
            /\ task[t].result.kind = "envelope" =>
                   task[t].result.code = "9999" /\ task[t].result.data = None

\* C9: when two invocations call get_token while no token is cached, both can
\* send an authentication request; a request that fails (its reply issues no
\* token) never overwrites or clears the token the other's success stored.
C9_FailureKeepsOthersToken ==
    [][\A t \in Tasks :
          (/\ task[t].pc = "auth_wait"
           /\ ~task[t].args.refresh
           /\ task'[t].pc # "auth_wait"
           /\ _jwt_token \notin {None, ""}
           /\ ~IssuesToken(task'[t].reply))
              => _jwt_token' = _jwt_token
      ]_vars

\* C10: a process whose OPENID (or third-party token, or account identifier)
\* is absent fails at startup, before any tool invocation is served: no
\* invocation ever runs in a process that lacks one of them.
C10_FailsFastWithoutConfiguration ==
    (\E t \in Tasks : task[t].pc # "idle") => EnvNames \subseteq environ

\* The tokens the identity backend issues.
IssuedTokens == {"jwt-1", "jwt-2"}

\* The invocation t takes the step.
Acts(t) == task'[t] # task[t]

\* The invocation t sends a request to the identity backend in the step.
SendsAuthRequest(t) == task'[t].nauth > task[t].nauth

\* C11 as stated: once a token is cached it keeps its value until a call of
\* get_token with force_refresh: a cached token is replaced by another token
\* only by the reply to a call with force_refresh, and while a token is cached
\* only a call with force_refresh sends an authentication request.
C11_CachedUntilForceRefresh ==
    [][(_jwt_token \in IssuedTokens) =>
          /\ (_jwt_token' \in IssuedTokens /\ _jwt_token' # _jwt_token) =>
                 (\E t \in Tasks : /\ Acts(t)
                                   /\ task[t].pc = "auth_wait"
                                   /\ task[t].args.refresh)
          /\ (\A t \in Tasks : SendsAuthRequest(t) => task'[t].args.refresh)
      ]_vars

\* C11 as amended: the cached token changes only in a step that takes in the
\* reply to an authentication request; an authentication request is sent only
\* by a call that finds no token cached or has force_refresh; a month passing
\* changes nothing of the cache; and an invocation whose downstream request
\* failed ends without a new authentication request and with the cache as it
\* was.
C11_CacheChangesOnlyOnAuthReply ==
    [][/\ _jwt_token' # _jwt_token =>
              (\E t \in Tasks : Acts(t) /\ task[t].pc = "auth_wait")
       /\ \A t \in Tasks :
              /\ SendsAuthRequest(t) =>
                     IF task[t].pc = "idle"
                     THEN _jwt_token = None \/ task'[t].args.refresh
                     ELSE _jwt_token' = None
              /\ task[t].pc = "api_wait" /\ Acts(t) =>
                     /\ task'[t].pc = "done"
                     /\ ~SendsAuthRequest(t)
                     /\ _jwt_token' = _jwt_token
       /\ now' # now => (_jwt_token' = _jwt_token /\ task' = task)
      ]_vars

\* C11's case: one invocation was handed "jwt-1", the reply to another's
\* request, in flight since the cache was empty, has since made the cache
\* "jwt-2", a month has passed since the start, and a downstream operation has
\* failed with that token.
C11_Witness ==
    /\ _jwt_token = "jwt-2"
    /\ now # read_at.second
    /\ \E t, u \in Tasks :
           /\ task[t].tool = "get_college_list"
           /\ task[t].pc = "done"
           /\ task[t].result.kind = "envelope"
           /\ Get(task[t].req.headers, "Authorization") = "jwt-2"
           /\ task[u].tool = "get_jwt_token"
           /\ task[u].pc = "done"
           /\ task[u].result.value = "jwt-1"

\* The replies C12 names: the backend unreachable, an HTTP error status, a code
\* other than "0000" or none, no data or no restToken payload.
AuthFailure(r) ==
    \/ r.transport \in {"connect_error", "http_error"}
    \/ /\ r.transport = "ok"
       /\ \/ r.code # "0000"
          \/ r.data \in {"absent", "empty"}
          \/ r.restToken \in {"absent", "empty"}

\* The text of the error for a reply that was decoded.
AuthFailureText(r) ==
    "get JWT token failed: " \o (IF r.msg = Absent THEN "unknown error" ELSE r.msg)

\* C12: when the identity backend's reply is a failure (unreachable, HTTP error
\* status, code not "0000" or absent, no data or restToken payload), get_token
\* raises to its caller, with the backend's msg or "unknown error" in the text
\* when the reply was decoded; it sends no second authentication request in
\* that call; and the cached token is what it was before the call.  (The
\* caller of get_token is the program for the method itself, the tool
\* get_jwt_token, which returns the text as {"error"}, or a downstream
\* operation, which returns it in its envelope.)
C12_FailureRaisesOnceKeepsCache ==
    [][\A t \in Tasks :
          /\ task[t].pc = "idle" /\ Acts(t) => _jwt_token' = _jwt_token
          /\ (/\ task[t].pc = "auth_wait"
              /\ Acts(t)
              /\ AuthFailure(task'[t].reply))
                 => /\ _jwt_token' = _jwt_token
                    /\ task'[t].pc = "done"
                    /\ task'[t].nauth = task[t].nauth
                    /\ task'[t].tool = TokenMethod =>
                           task'[t].result.how = "raise"
                    /\ task'[t].reply.transport = "ok" =>
                           LET text == AuthFailureText(task'[t].reply)
                               res == task'[t].result
                           IN  CASE task'[t].tool = TokenMethod ->
                                        res.how = "raise" /\ res.error = text
                                 [] task'[t].tool = "get_jwt_token" ->
                                        res.kind = "error" /\ res.error = text
                                 [] OTHER ->
                                        res.msg = ErrPrefix(task'[t].tool) \o text
      ]_vars

\* C12's case: a forced refresh over the cached "jwt-1" was answered with a
\* code other than "0000" and no msg; the call raised with the "unknown error"
\* text after one request and "jwt-1" is still cached.
C12_Witness ==
    \E t \in Tasks :
        /\ task[t].tool = TokenMethod
        /\ task[t].args.refresh
        /\ task[t].pc = "done"
        /\ task[t].reply.code = "9001"
        /\ task[t].reply.msg = Absent
        /\ task[t].nauth = 1
        /\ task[t].result.how = "raise"
        /\ task[t].result.error = "get JWT token failed: unknown error"
        /\ _jwt_token = "jwt-1"

\* The university's academic endpoints the program requests: the paths under
\* BASE_URL/academic/.
AcademicUrls ==
    {BASE_URL \o Path(tool) : tool \in SchoolTools}
        \union {BASE_URL \o "/academic/schoolCalendar"}

\* The credential of the third-party backend as it is sent.
BearerCredential == "Bearer value-of-SENDS_API_TOKEN"

\* C13 as stated: every request in flight to a university academic endpoint
\* carries the fixed Content-Type/Accept pair and an Authorization that is the
\* token get_token returned (the cached token), and every request to the
\* third-party backend carries "Bearer " and the configured token (looked at
\* while a token is cached).
C13_EveryAcademicRequestAuthorized ==
    \A t \in Tasks :
        task[t].pc = "api_wait" /\ _jwt_token \in IssuedTokens =>
            /\ task[t].req.url \in AcademicUrls =>
                   /\ Get(task[t].req.headers, "Authorization") = _jwt_token
                   /\ Get(task[t].req.headers, "Content-Type") = "application/json"
                   /\ Get(task[t].req.headers, "Accept") = "application/json;charset=utf-8"
            /\ task[t].req.backend = "sends" =>
                   Get(task[t].req.headers, "Authorization") = BearerCredential

\* C13 as amended: every request a SchoolInfoService operation sends carries
\* exactly Content-Type, Accept and an Authorization equal to the token
\* get_token returned for it (the cache as the request is sent), which is a
\* token as the identity backend gave it and never the third-party credential;
\* the request of get_teaching_week to /academic/schoolCalendar carries no
\* header; every request to the third-party backend carries Authorization
\* "Bearer " and the configured token, and never the university's token.
C13_HeadersPerBackend ==
    [][\A t \in Tasks :
          (task[t].pc # "api_wait" /\ task'[t].pc = "api_wait") =>
              LET req == task'[t].req
              IN  /\ req.backend = "school" =>
                         /\ req.url \in AcademicUrls
                         /\ req.headers =
                                {<<"Content-Type", "application/json">>,
                                 <<"Accept", "application/json;charset=utf-8">>,
                                 <<"Authorization", _jwt_token'>>}
                         /\ _jwt_token' \in {r.token : r \in IdentityReplies} \ {Absent}
                         /\ _jwt_token' # BearerCredential
                  /\ req.backend = "calendar" =>
                         /\ req.url = BASE_URL \o "/academic/schoolCalendar"
                         /\ req.headers = {}
                  /\ req.backend = "sends" =>
                         /\ req.url \notin AcademicUrls
                         /\ req.headers =
                                {<<"Authorization", BearerCredential>>,
                                 <<"Content-Type", "application/json">>}
                         /\ BearerCredential \notin {r.token : r \in IdentityReplies}
                  /\ req.backend \in {"school", "calendar", "sends"}
      ]_vars

\* C13's case: the grade request is in flight with the raw token the identity
\* backend issued as its Authorization.
C13_Witness ==
    \E t \in Tasks :
        /\ task[t].tool = "get_student_grade"
        /\ task[t].pc = "api_wait"
        /\ _jwt_token = "jwt-2"
        /\ Get(task[t].req.headers, "Authorization") = "jwt-2"

\* C14: the request of the get_rooms_timetable tool carries the caller's
\* arguments by name: campus as campus, build_name as build, room_id as room,
\* school_year (or the stored default) as KKXN and semester (or the stored
\* default) as KKXQ.
C14_RoomsTimetableByName ==
    \A t \in Tasks :
        task[t].tool = "get_rooms_timetable" /\ RequestInFlight(t) =>
            LET a == task[t].args
                params == task[t].req.params
            IN  /\ Get(params, "campus") = CampusArg
                /\ Get(params, "build") = BuildArg
                /\ Get(params, "room") = RoomArg
                /\ Get(params, "KKXN") = IF a.school_year # None THEN a.school_year
                                         ELSE current_school_year
                /\ Get(params, "KKXQ") = IF a.semester # None THEN a.semester
                                         ELSE current_semester

\* Whether a currWeek text contains the character before the number, one or
\* more digits and the character after it.
ContainsWeek(s) ==
    \E i, j \in 1 .. Len(s) :
        /\ i + 1 < j
        /\ s[i] = "D" /\ s[j] = "Z"
        /\ \A k \in (i + 1) .. (j - 1) : s[k] \in Digits

\* The week numbers of the currWeek texts that have one, as integers.
WeekOf(s) ==
    CASE s = <<"D", "5", "Z">> -> "5"
      [] s = <<"x", "D", "1", "2", "Z", "x">> -> "12"
      [] s = <<"D", "0", "7", "Z">> -> "7"
      [] s = <<"D", "3", "Z", "D", "5", "Z">> -> "3"

\* C15: get_teaching_week never raises; what it returns is {"error"} or the
\* week object.  The week object has success true exactly when week_number is
\* not null; week_number is not null exactly when the calendar reply has code
\* "0000", a non-empty data and a currWeek text that contains the week, and is
\* then that integer; the object always has today's date.  A reply with code
\* "0000", data and a currWeek text, or with another code, or with empty data,
\* is answered with the week object and not with an error.
C15_TeachingWeek ==
    \A t \in Tasks :
        task[t].tool = "get_teaching_week" /\ task[t].pc = "done" =>
            LET r == task[t].calendar
                res == task[t].result
                has_week == /\ r.code = "0000" /\ r.data = "dict"
                            /\ r.currWeek = "text" /\ ContainsWeek(r.week)
            IN  /\ res.how = "return"
                /\ res.kind \in {"week", "error"}
                /\ res.kind = "week" =>
                       /\ res.success = "True" <=> res.week_number # None
                       /\ res.success = "False" <=> res.week_number = None
                       /\ res.week_number # None <=> has_week
                       /\ has_week => res.week_number = WeekOf(r.week)
                       /\ res.date = Today
                /\ (/\ r.transport = "ok"
                    /\ \/ r.code # "0000"
                       \/ r.data # "dict"
                       \/ r.currWeek \in {"text", "absent"})
                       => res.kind = "week"

\* C15's case: the calendar answered with a currWeek text holding week 12
\* among other characters; the tool returned success with week_number 12.
C15_Witness ==
    \E t \in Tasks :
        /\ task[t].tool = "get_teaching_week"
        /\ task[t].pc = "done"
        /\ task[t].calendar.week = <<"x", "D", "1", "2", "Z", "x">>
        /\ task[t].result.success = "True"
        /\ task[t].result.week_number = "12"

\* C16: the pair __init__ stores from its two clock reads is the resolver's
\* pair for one instant between the reads (at the clock's grain, the month of
\* the first read or the month of the second), also when a month boundary
\* falls between them; and no month boundary changes both fields of the
\* resolver's pair.
C16_StoredPairOfOneInstant ==
    /\ proc = "serving" =>
           \E d \in {read_at.first, read_at.second} :
               <<current_school_year, current_semester>> = School_get_current_semester(d)
    /\ \/ School_get_current_semester(now)[1] = School_get_current_semester(NextMonth(now))[1]
       \/ School_get_current_semester(now)[2] = School_get_current_semester(NextMonth(now))[2]

\* C16's case: the first read fell in August 2024 and the second in September
\* 2024; the stored pair is the one of August.
C16_Witness ==
    /\ proc = "serving"
    /\ read_at.first = [year |-> 2024, month |-> 8]
    /\ read_at.second = [year |-> 2024, month |-> 9]
    /\ <<current_school_year, current_semester>> = <<"2023-2024", YI>>

\* The number the third-party backend uses for a semester.
SemesterNumber(semester) == IF semester = YI THEN "1" ELSE "2"

\* C17: for every date, the semester StudentDataService._get_current_semester
\* gives (sent by get_schedule when the caller omits it) is "{school_year}-{n}"
\* with school_year the school year SchoolInfoService._get_current_semester
\* gives for that date and n 1 for its first semester, 2 for its second.
C17_ResolversAgree ==
    \A t \in Tasks :
        (/\ task[t].tool = "get_student_schedule"
         /\ task[t].pc = "api_wait"
         /\ task[t].args.semester = None)
            => LET pair == School_get_current_semester(now)
               IN  /\ pair[2] \in {YI, ER}
                   /\ Get(task[t].req.params, "semester") =
                          pair[1] \o "-" \o SemesterNumber(pair[2])

\* C17's case: get_schedule called in March 2025 without a semester sends
\* "2024-2025-2".
C17_Witness ==
    \E t \in Tasks :
        /\ task[t].tool = "get_student_schedule"
        /\ task[t].pc = "api_wait"
        /\ task[t].args.semester = None
        /\ now = [year |-> 2025, month |-> 3]
        /\ Get(task[t].req.params, "semester") = "2024-2025-2"

====
